---- MODULE Spec2Model ----
(***************************************************************************)
(* kdb::RateLimiter (src/cache/rate_limiter.h): the adaptive write         *)
(* throttle of the storage engine.  Producers call Tick(bytes_arriving);   *)
(* the flush thread brackets each physical write with WriteStart() and     *)
(* WriteEnd(num_bytes_written).                                            *)
(*                                                                         *)
(* Specifications over the same state:                                     *)
(*   Spec           calls run one at a time, each call one atomic action;  *)
(*   SpecEstimator  the writing-rate estimator alone (WriteStart,          *)
(*                  WriteEnd, GetWritingRate), with enough calls to evict  *)
(*                  samples;                                               *)
(*   SpecSample     WriteStart and WriteEnd over short elapsed times;      *)
(*   SpecConc       producer threads and the writer thread, interleaved;   *)
(*   SpecProducers  producer threads alone, over more calls and epochs;    *)
(*   SpecController the rollover's controller over any number of epochs,   *)
(*                  with the coefficient in a word of WordBits bits        *)
(*                  (SpecControllerFair: rollovers keep coming).           *)
(*                                                                         *)
(* Numbers: the fields are uint64_t.  Every value the bounded runs of the  *)
(* call-level and thread-level specifications reach is far below 2^31, so  *)
(* no operation wraps there.  SpecController runs the coefficient up to    *)
(* the top of its word, which the model scales down to WordBits bits.      *)
(***************************************************************************)
EXTENDS Integers, Sequences, FiniteSets, TLC

---------------------------------------------------------------------------
(* Program constants                                                       *)

InitialRateArriving == 262144000
InitialCoefficient == 5
BumpThreshold == 5
MaxSleepMicroseconds == 50000
HistoryCapacity == 10
DefaultWritingRate == 1048576
MillisPerSecond == 1000

---------------------------------------------------------------------------
(* Bounds of the model                                                     *)

StartNow == 1000
ClockStep == 500
ConcClockStep == 1000
MaxNow == 4000
MaxNowEstimator == 1500
MaxNowConc == 2000
MaxNowProducers == 3000
MaxTicks == 4
MaxWrites == 1
MaxHistoryWrites == 12
MaxQueries == 1
NumProducers == 2
MaxConcTicks == 3
MaxProducerTicks == 6
MaxConcWrites == 1
SampleClockStep == 35
MaxNowSample == 1140
MaxSampleWrites == 2
WordBits == 8

\* StartNow: the wall clock (ms) when the limiter is constructed; the clock
\* advances by ClockStep (Spec, SpecEstimator) or ConcClockStep (SpecConc,
\* SpecProducers) up to the specification's MaxNow*.  MaxTicks, MaxWrites,
\* MaxHistoryWrites, MaxConcTicks, MaxProducerTicks, MaxConcWrites: calls
\* made in a run.  MaxQueries: GetWritingRate() calls per history.
\* SampleClockStep, MaxNowSample, MaxSampleWrites: the clock and the calls
\* of SpecSample.  WordBits: the width of bytes_per_microsecond_ in
\* SpecController, standing for the 64 bits of uint64_t.

BytesArrivingSet == {0, 9, 300000}
BytesArrivingConc == {1000000}
BytesWrittenSet == {0, 1000000}
BytesWrittenConc == {1000000}
BytesWrittenSample == {7, 1000000}
RateLimits == {0, 1000, 1500000}

\* What a rollover of SpecController sees: the adjusted arrival rate and the
\* writing rate, on and around every boundary of the controller's bands.
AdjustedRates ==
  {0, 49, 50, 89, 90, 94, 95, 100, 101, 105, 106, 110, 111, 150, 151}
WritingRates == {0, 100}

Producers == 1..NumProducers
Writer == NumProducers + 1
NoThread == 0
Unset == -1

---------------------------------------------------------------------------
(* Pure parts of the code                                                  *)

\* std::time(0): the wall clock in whole seconds.
EpochOf(ms) == ms \div MillisPerSecond

RolloverAlways(epoch, last) == TRUE

\* if (epoch_current_ != epoch_last_)
Rollover(epoch, last) == epoch # last

\* (uint64_t)((double)c * m) for the multiplier m = num/den, as the build
\* computes it.  The product of the doubles truncates to floor(c*num/den)
\* for every multiplier but 1.005, whose double is below 1.005 by more than
\* half an ulp of the product when c is a multiple of 200 (c < 4200): there
\* the result is one less.
MulTrunc(c, num, den) ==
  LET exact == (c * num) \div den
  IN  IF num = 1005 /\ den = 1000 /\ c > 0 /\ c % 200 = 0 /\ c < 4200
        THEN exact - 1
        ELSE exact

MultiplierGentle(a, w) ==
  IF a > w THEN <<95, 100>> ELSE <<105, 100>>

\* The multiplier the controller picks, as <<num, den>>, from
\* ratio = (double)a / (double)w.  The comparisons of the double ratio with
\* the double constants agree with the exact ones for a, w < 2^31.  w = 0
\* gives ratio = +inf when a > 0 and NaN when a = 0 (every comparison with
\* NaN is false).
Multiplier(a, w) ==
  IF a > w
    THEN IF w = 0 \/ 2 * a > 3 * w THEN <<75, 100>>
         ELSE IF 10 * a > 11 * w THEN <<95, 100>>
         ELSE IF 20 * a > 21 * w THEN <<99, 100>>
         ELSE <<995, 1000>>
    ELSE IF w # 0 /\ 2 * a < w THEN <<125, 100>>
         ELSE IF w # 0 /\ 10 * a < 9 * w THEN <<105, 100>>
         ELSE IF w # 0 /\ 20 * a < 19 * w THEN <<101, 100>>
         ELSE <<1005, 1000>>

\* bytes_per_microsecond_ *= multiplier
Multiply(c, a, w) ==
  LET m == Multiplier(a, w) IN MulTrunc(c, m[1], m[2])

\* The values a word of WordBits bits holds are 0 .. Modulus - 1.
Modulus == 2 ^ WordBits

\* (uint64_t)x for the double product x.  Out of range the conversion is
\* undefined; builds produce 0 (gcc, x86-64), the top bit alone (clang,
\* x86-64) or the largest value (the saturating fcvtzu of AArch64).
Converted(x) ==
  IF x < Modulus THEN {x} ELSE {0, Modulus \div 2, Modulus - 1}

BumpNoIncrement(c) == c

BumpByTwo(c) == IF c <= BumpThreshold THEN c + 2 ELSE c

\* if (bytes_per_microsecond_ <= 5) bytes_per_microsecond_ += 1;
Bump(c) == IF c <= BumpThreshold THEN c + 1 ELSE c

AdjustedWithoutSleep(ra, c, ds) == ra

\* rate_arriving_ + bytes_per_microsecond_ * duration_slept_
Adjusted(ra, c, ds) == ra + c * ds

\* sleep_microseconds as computed under the lock
SleepQuotient(b, c) == IF c > 0 THEN b \div c ELSE 0

ClampNone(s) == s

\* if (sleep_microseconds > 50000) sleep_microseconds = 50000;
Clamp(s) == IF s > MaxSleepMicroseconds THEN MaxSleepMicroseconds ELSE s

\* The sample WriteEnd computes from its two millisecond timestamps:
\* (uint64_t)((double)n / (((double)end - (double)start) / 1000)), as the
\* build computes it.  The double of the duration is not the exact
\* quotient; for the byte counts of the model and elapsed times below
\* 5000 ms the result is floor(n * 1000 / (end - start)) except for 7 bytes
\* over 35, 70, 140 or 280 ms, where the quotient of the doubles falls just
\* below the whole number and truncates to one less.
WritingSample(n, start, end) ==
  LET exact == (n * MillisPerSecond) \div (end - start)
  IN  IF start = end THEN n
      ELSE IF n = 7 /\ (end - start) \in {35, 70, 140, 280} THEN exact - 1
      ELSE exact

StoreWritingRateEvictNewest(rs, rate) ==
  IF Len(rs) >= HistoryCapacity
    THEN Append(SubSeq(rs, 1, Len(rs) - 1), rate)
    ELSE Append(rs, rate)

\* StoreWritingRate: erase the front element at capacity, then push_back.
StoreWritingRate(rs, rate) ==
  Append(IF Len(rs) >= HistoryCapacity THEN Tail(rs) ELSE rs, rate)

\* The loop of GetWritingRate: the sum of rates_[0 .. i-1].
RECURSIVE SumTo(_, _)
SumTo(rs, i) == IF i = 0 THEN 0 ELSE SumTo(rs, i - 1) + rs[i]

GetWritingRateFixedDivisor(rs, limit) ==
  IF Len(rs) = 0 THEN DefaultWritingRate
  ELSE LET rate_limit_current == SumTo(rs, Len(rs)) \div HistoryCapacity
       IN  IF limit > 0 /\ limit < rate_limit_current
             THEN limit
             ELSE rate_limit_current

GetWritingRate(rs, limit) ==
  IF Len(rs) = 0 THEN DefaultWritingRate
  ELSE LET rate_limit_current == SumTo(rs, Len(rs)) \div Len(rs)
       IN  IF limit > 0 /\ limit < rate_limit_current
             THEN limit
             ELSE rate_limit_current

---------------------------------------------------------------------------
(* State                                                                   *)

VARIABLES
  \* the fields of RateLimiter
  rate_limit_, rate_arriving_, rate_arriving_adjusted_, epoch_last_,
  epoch_current_, duration_slept_, bytes_per_microsecond_, rates_,
  epoch_write_start_, epoch_write_end_,
  mutex_throttling_,      \* the thread holding the mutex, or NoThread
  \* the environment
  now,                    \* the wall clock, in milliseconds
  \* threads: position and locals of each call in progress
  pc, bytes_arriving, sleep_microseconds, loaded,
  wpc, num_bytes_written,
  \* observation
  call,          \* the last completed Tick of Spec and what it did
  returned,      \* what GetWritingRate() returned for this history, or Unset
  written,       \* every sample handed to StoreWritingRate, in call order
  adjustments,   \* per epoch value: times the rollover branch was entered
  ctl,           \* the last rollover of SpecController and the run's regime
  tally,         \* thread-level specifications: bytes added to
                 \* rate_arriving_ and bytes of rate_arriving_ that went
                 \* into a rate_arriving_adjusted_
  n_ticks, n_writes, n_queries

fields == <<rate_limit_, rate_arriving_, rate_arriving_adjusted_, epoch_last_,
            epoch_current_, duration_slept_, bytes_per_microsecond_, rates_,
            epoch_write_start_, epoch_write_end_, mutex_throttling_>>
threads == <<pc, bytes_arriving, sleep_microseconds, loaded, wpc,
             num_bytes_written>>
observed == <<call, returned, written, adjustments, ctl, tally, n_ticks,
              n_writes, n_queries>>
vars == <<fields, now, threads, observed>>

NoCall == [op |-> "none", arg |-> 0, rolled |-> FALSE, slept |-> 0,
           sleeps |-> 0, rate_writing |-> Unset]

\* regime: "free" while a rollover may see any rates; "overload" or
\* "underload" once every rollover sees the adjusted arrival rate above 1.5
\* times, or below half of, the writing rate.  engaged: a rollover of the
\* overload regime had a product of 5 or less, so the bump applied.
NoRollover == [before |-> Unset, rate_writing |-> Unset, product |-> Unset,
               regime |-> "free", engaged |-> FALSE]

\* The state the constructor leaves (lines 17-26, 150): epoch_write_start_
\* and epoch_write_end_ are not initialised.
Init ==
  /\ rate_limit_ \in RateLimits
  /\ rate_arriving_ = InitialRateArriving
  /\ rate_arriving_adjusted_ = 0
  /\ epoch_last_ = 0
  /\ epoch_current_ = 0
  /\ duration_slept_ = 0
  /\ bytes_per_microsecond_ = InitialCoefficient
  /\ rates_ = <<>>
  /\ epoch_write_start_ = Unset
  /\ epoch_write_end_ = Unset
  /\ mutex_throttling_ = NoThread
  /\ now = StartNow
  /\ pc = [t \in Producers |-> "idle"]
  /\ bytes_arriving = [t \in Producers |-> 0]
  /\ sleep_microseconds = [t \in Producers |-> 0]
  /\ loaded = [t \in Producers |-> 0]
  /\ wpc = "idle"
  /\ num_bytes_written = 0
  /\ call = NoCall
  /\ returned = Unset
  /\ written = <<>>
  /\ adjustments = [e \in {} |-> 0]
  /\ ctl = NoRollover
  /\ tally = [added |-> 0, adjusted |-> 0]
  /\ n_ticks = 0
  /\ n_writes = 0
  /\ n_queries = 0

\* adjustments with one more entry into the rollover branch at epoch e
Counted(adj, e) ==
  IF e \in DOMAIN adj
    THEN [adj EXCEPT ![e] = @ + 1]
    ELSE [x \in DOMAIN adj \cup {e} |-> IF x = e THEN 1 ELSE adj[x]]

---------------------------------------------------------------------------
(* Calls run one at a time                                                 *)

\* The wall clock advances.
AdvanceClock(step, cap) ==
  /\ now + step <= cap
  /\ now' = now + step
  /\ UNCHANGED <<rate_limit_, rate_arriving_, rate_arriving_adjusted_,
                 epoch_last_, epoch_current_, duration_slept_,
                 bytes_per_microsecond_, rates_, epoch_write_start_,
                 epoch_write_end_, mutex_throttling_, pc, bytes_arriving,
                 sleep_microseconds, loaded, wpc, num_bytes_written, call,
                 returned, written, adjustments, ctl, tally, n_ticks,
                 n_writes, n_queries>>

\* Tick(b), lines 31-95, with no other call running.
Tick(b) ==
  LET e    == EpochOf(now)
      roll == Rollover(e, epoch_last_)
      adj  == IF roll
                THEN Adjusted(rate_arriving_, bytes_per_microsecond_,
                              duration_slept_)
                ELSE rate_arriving_adjusted_
      w    == GetWritingRate(rates_, rate_limit_)
      c    == IF roll
                THEN Bump(Multiply(bytes_per_microsecond_, adj, w))
                ELSE bytes_per_microsecond_
      s    == Clamp(SleepQuotient(b, c))
  IN  /\ n_ticks < MaxTicks
      /\ n_ticks' = n_ticks + 1
      /\ epoch_current_' = e
      /\ rate_arriving_adjusted_' = adj
      /\ epoch_last_' = IF roll THEN e ELSE epoch_last_
      /\ bytes_per_microsecond_' = c
      /\ rate_arriving_' = (IF roll THEN 0 ELSE rate_arriving_) + b
      /\ duration_slept_' = (IF roll THEN 0 ELSE duration_slept_) + s
      /\ adjustments' = IF roll THEN Counted(adjustments, e) ELSE adjustments
      /\ call' = [op |-> "Tick", arg |-> b, rolled |-> roll, slept |-> s,
                  sleeps |-> IF s > 0 THEN 1 ELSE 0,
                  rate_writing |-> IF roll THEN w ELSE Unset]
      /\ UNCHANGED <<rate_limit_, rates_, epoch_write_start_,
                     epoch_write_end_, mutex_throttling_, now, pc,
                     bytes_arriving, sleep_microseconds, loaded, wpc,
                     num_bytes_written, returned, written, ctl, tally,
                     n_writes, n_queries>>

\* WriteStart(), lines 98-101.
WriteStart ==
  /\ epoch_write_start_' = now
  /\ UNCHANGED <<rate_limit_, rate_arriving_, rate_arriving_adjusted_,
                 epoch_last_, epoch_current_, duration_slept_,
                 bytes_per_microsecond_, rates_, epoch_write_end_,
                 mutex_throttling_, now, pc, bytes_arriving,
                 sleep_microseconds, loaded, wpc, num_bytes_written, call,
                 returned, written, adjustments, ctl, tally, n_ticks,
                 n_writes, n_queries>>

\* WriteEnd(n), lines 104-117, once a WriteStart() has set the start
\* timestamp.
WriteEnd(n, cap) ==
  LET rate == WritingSample(n, epoch_write_start_, now)
  IN  /\ n_writes < cap
      /\ epoch_write_start_ # Unset
      /\ n_writes' = n_writes + 1
      /\ epoch_write_end_' = now
      /\ rates_' = StoreWritingRate(rates_, rate)
      /\ written' = Append(written, rate)
      /\ returned' = Unset
      /\ n_queries' = 0
      /\ UNCHANGED <<rate_limit_, rate_arriving_, rate_arriving_adjusted_,
                     epoch_last_, epoch_current_, duration_slept_,
                     bytes_per_microsecond_, epoch_write_start_,
                     mutex_throttling_, now, pc, bytes_arriving,
                     sleep_microseconds, loaded, wpc, num_bytes_written,
                     call, adjustments, ctl, tally, n_ticks>>

\* GetWritingRate(), lines 127-139, called on its own.
GetWritingRateCall ==
  /\ n_queries < MaxQueries
  /\ n_queries' = n_queries + 1
  /\ returned' = GetWritingRate(rates_, rate_limit_)
  /\ UNCHANGED <<rate_limit_, rate_arriving_, rate_arriving_adjusted_,
                 epoch_last_, epoch_current_, duration_slept_,
                 bytes_per_microsecond_, rates_, epoch_write_start_,
                 epoch_write_end_, mutex_throttling_, now, pc,
                 bytes_arriving, sleep_microseconds, loaded, wpc,
                 num_bytes_written, call, written, adjustments, ctl, tally,
                 n_ticks, n_writes>>

Next ==
  \/ \E b \in BytesArrivingSet : Tick(b)
  \/ WriteStart
  \/ \E n \in BytesWrittenSet : WriteEnd(n, MaxWrites)
  \/ AdvanceClock(ClockStep, MaxNow)

Spec == Init /\ [][Next]_vars

NextEstimator ==
  \/ WriteStart
  \/ \E n \in BytesWrittenSet : WriteEnd(n, MaxHistoryWrites)
  \/ GetWritingRateCall
  \/ AdvanceClock(ClockStep, MaxNowEstimator)

SpecEstimator == Init /\ [][NextEstimator]_vars

NextSample ==
  \/ WriteStart
  \/ \E n \in BytesWrittenSample : WriteEnd(n, MaxSampleWrites)
  \/ AdvanceClock(SampleClockStep, MaxNowSample)

SpecSample == Init /\ [][NextSample]_vars

---------------------------------------------------------------------------
(* Threads: producers run Tick, the writer brackets one write at a time    *)
(* with WriteStart and WriteEnd; the steps interleave.  A step is a run of *)
(* statements of one thread.  The rollover branch runs with the mutex not  *)
(* held; the bump of bytes_per_microsecond_ is a load (with its test)      *)
(* followed by a store, and so is duration_slept_ += sleep_microseconds,   *)
(* which runs after the unlock.  A call's locals are cleared when it       *)
(* returns.                                                                *)

\* mutex_throttling_.lock(): the caller waits until the mutex is free.
Acquire(t) ==
  /\ mutex_throttling_ = NoThread
  /\ mutex_throttling_' = t

ReleaseKeeps(t) ==
  /\ mutex_throttling_ = t
  /\ mutex_throttling_' = t

\* mutex_throttling_.unlock()
Release(t) ==
  /\ mutex_throttling_ = t
  /\ mutex_throttling_' = NoThread

\* lines 32-33: the call starts, samples the clock and tests for a rollover.
T_Sample(t, b, cap) ==
  /\ pc[t] = "idle"
  /\ n_ticks < cap
  /\ n_ticks' = n_ticks + 1
  /\ bytes_arriving' = [bytes_arriving EXCEPT ![t] = b]
  /\ epoch_current_' = EpochOf(now)
  /\ IF Rollover(EpochOf(now), epoch_last_)
       THEN /\ pc' = [pc EXCEPT ![t] = "adjust"]
            /\ adjustments' = Counted(adjustments, EpochOf(now))
       ELSE /\ pc' = [pc EXCEPT ![t] = "lock"]
            /\ UNCHANGED adjustments
  /\ UNCHANGED <<rate_limit_, rate_arriving_, rate_arriving_adjusted_,
                 epoch_last_, duration_slept_, bytes_per_microsecond_,
                 rates_, epoch_write_start_, epoch_write_end_,
                 mutex_throttling_, now, sleep_microseconds, loaded, wpc,
                 num_bytes_written, call, returned, written, ctl, tally,
                 n_writes, n_queries>>

\* line 35
T_Adjust(t) ==
  /\ pc[t] = "adjust"
  /\ rate_arriving_adjusted_' =
       Adjusted(rate_arriving_, bytes_per_microsecond_, duration_slept_)
  /\ tally' = [tally EXCEPT !.adjusted = @ + rate_arriving_]
  /\ pc' = [pc EXCEPT ![t] = "reset"]
  /\ UNCHANGED <<rate_limit_, rate_arriving_, epoch_last_, epoch_current_,
                 duration_slept_, bytes_per_microsecond_, rates_,
                 epoch_write_start_, epoch_write_end_, mutex_throttling_,
                 now, bytes_arriving, sleep_microseconds, loaded, wpc,
                 num_bytes_written, call, returned, written, adjustments,
                 ctl, n_ticks, n_writes, n_queries>>

\* lines 39-41
T_Reset(t) ==
  /\ pc[t] = "reset"
  /\ duration_slept_' = 0
  /\ rate_arriving_' = 0
  /\ epoch_last_' = epoch_current_
  /\ pc' = [pc EXCEPT ![t] = "multiply"]
  /\ UNCHANGED <<rate_limit_, rate_arriving_adjusted_, epoch_current_,
                 bytes_per_microsecond_, rates_, epoch_write_start_,
                 epoch_write_end_, mutex_throttling_, now, bytes_arriving,
                 sleep_microseconds, loaded, wpc, num_bytes_written, call,
                 returned, written, adjustments, ctl, tally, n_ticks,
                 n_writes, n_queries>>

\* lines 43-55 and 58-68: GetWritingRate() reads rates_ with the mutex not
\* held; bytes_per_microsecond_ *= multiplier.
T_Multiply(t) ==
  /\ pc[t] = "multiply"
  /\ bytes_per_microsecond_' =
       Multiply(bytes_per_microsecond_, rate_arriving_adjusted_,
                GetWritingRate(rates_, rate_limit_))
  /\ pc' = [pc EXCEPT ![t] = "bump"]
  /\ UNCHANGED <<rate_limit_, rate_arriving_, rate_arriving_adjusted_,
                 epoch_last_, epoch_current_, duration_slept_, rates_,
                 epoch_write_start_, epoch_write_end_, mutex_throttling_,
                 now, bytes_arriving, sleep_microseconds, loaded, wpc,
                 num_bytes_written, call, returned, written, adjustments,
                 ctl, tally, n_ticks, n_writes, n_queries>>

\* lines 56 and 70: the load of bytes_per_microsecond_ and the test.
T_BumpLoad(t) ==
  /\ pc[t] = "bump"
  /\ IF Bump(bytes_per_microsecond_) # bytes_per_microsecond_
       THEN /\ loaded' = [loaded EXCEPT ![t] = bytes_per_microsecond_]
            /\ pc' = [pc EXCEPT ![t] = "bump_store"]
       ELSE /\ pc' = [pc EXCEPT ![t] = "lock"]
            /\ UNCHANGED loaded
  /\ UNCHANGED <<rate_limit_, rate_arriving_, rate_arriving_adjusted_,
                 epoch_last_, epoch_current_, duration_slept_,
                 bytes_per_microsecond_, rates_, epoch_write_start_,
                 epoch_write_end_, mutex_throttling_, now, bytes_arriving,
                 sleep_microseconds, wpc, num_bytes_written, call, returned,
                 written, adjustments, ctl, tally, n_ticks, n_writes,
                 n_queries>>

\* lines 56 and 70: the store of the incremented value.
T_BumpStore(t) ==
  /\ pc[t] = "bump_store"
  /\ bytes_per_microsecond_' = Bump(loaded[t])
  /\ loaded' = [loaded EXCEPT ![t] = 0]
  /\ pc' = [pc EXCEPT ![t] = "lock"]
  /\ UNCHANGED <<rate_limit_, rate_arriving_, rate_arriving_adjusted_,
                 epoch_last_, epoch_current_, duration_slept_, rates_,
                 epoch_write_start_, epoch_write_end_, mutex_throttling_,
                 now, bytes_arriving, sleep_microseconds, wpc,
                 num_bytes_written, call, returned, written, adjustments,
                 ctl, tally, n_ticks, n_writes, n_queries>>

\* lines 78-83: lock, then the accounting and the sleep time.
T_Account(t) ==
  /\ pc[t] = "lock"
  /\ Acquire(t)
  /\ rate_arriving_' = rate_arriving_ + bytes_arriving[t]
  /\ sleep_microseconds' =
       [sleep_microseconds EXCEPT
          ![t] = SleepQuotient(bytes_arriving[t], bytes_per_microsecond_)]
  /\ tally' = [tally EXCEPT !.added = @ + bytes_arriving[t]]
  /\ pc' = [pc EXCEPT ![t] = "unlock"]
  /\ UNCHANGED <<rate_limit_, rate_arriving_adjusted_, epoch_last_,
                 epoch_current_, duration_slept_, bytes_per_microsecond_,
                 rates_, epoch_write_start_, epoch_write_end_, now,
                 bytes_arriving, loaded, wpc, num_bytes_written, call,
                 returned, written, adjustments, ctl, n_ticks, n_writes,
                 n_queries>>

\* lines 84-92: unlock, clamp; the thread returns or starts to sleep.
T_Unlock(t) ==
  /\ pc[t] = "unlock"
  /\ Release(t)
  /\ sleep_microseconds' =
       [sleep_microseconds EXCEPT ![t] = Clamp(sleep_microseconds[t])]
  /\ bytes_arriving' = [bytes_arriving EXCEPT ![t] = 0]
  /\ pc' = [pc EXCEPT ![t] = IF Clamp(sleep_microseconds[t]) # 0
                                THEN "sleep" ELSE "idle"]
  /\ UNCHANGED <<rate_limit_, rate_arriving_, rate_arriving_adjusted_,
                 epoch_last_, epoch_current_, duration_slept_,
                 bytes_per_microsecond_, rates_, epoch_write_start_,
                 epoch_write_end_, now, loaded, wpc, num_bytes_written,
                 call, returned, written, adjustments, ctl, tally, n_ticks,
                 n_writes, n_queries>>

\* lines 92-93: sleep_for returns; the load of duration_slept_.
T_Slept(t) ==
  /\ pc[t] = "sleep"
  /\ loaded' = [loaded EXCEPT ![t] = duration_slept_]
  /\ pc' = [pc EXCEPT ![t] = "add"]
  /\ UNCHANGED <<rate_limit_, rate_arriving_, rate_arriving_adjusted_,
                 epoch_last_, epoch_current_, duration_slept_,
                 bytes_per_microsecond_, rates_, epoch_write_start_,
                 epoch_write_end_, mutex_throttling_, now, bytes_arriving,
                 sleep_microseconds, wpc, num_bytes_written, call, returned,
                 written, adjustments, ctl, tally, n_ticks, n_writes,
                 n_queries>>

\* line 93: the store of the sum; the call returns.
T_Add(t) ==
  /\ pc[t] = "add"
  /\ duration_slept_' = loaded[t] + sleep_microseconds[t]
  /\ loaded' = [loaded EXCEPT ![t] = 0]
  /\ sleep_microseconds' = [sleep_microseconds EXCEPT ![t] = 0]
  /\ pc' = [pc EXCEPT ![t] = "idle"]
  /\ UNCHANGED <<rate_limit_, rate_arriving_, rate_arriving_adjusted_,
                 epoch_last_, epoch_current_, bytes_per_microsecond_,
                 rates_, epoch_write_start_, epoch_write_end_,
                 mutex_throttling_, now, bytes_arriving, wpc,
                 num_bytes_written, call, returned, written, adjustments,
                 ctl, tally, n_ticks, n_writes, n_queries>>

\* WriteStart() on the writer thread, lines 98-101.
W_Start ==
  /\ wpc = "idle"
  /\ n_writes < MaxConcWrites
  /\ epoch_write_start_' = now
  /\ wpc' = "writing"
  /\ UNCHANGED <<rate_limit_, rate_arriving_, rate_arriving_adjusted_,
                 epoch_last_, epoch_current_, duration_slept_,
                 bytes_per_microsecond_, rates_, epoch_write_end_,
                 mutex_throttling_, now, pc, bytes_arriving,
                 sleep_microseconds, loaded, num_bytes_written, call,
                 returned, written, adjustments, ctl, tally, n_ticks,
                 n_writes, n_queries>>

\* lines 105-107: WriteEnd(n) starts and samples the clock.
W_Begin(n) ==
  /\ wpc = "writing"
  /\ n_writes' = n_writes + 1
  /\ num_bytes_written' = n
  /\ epoch_write_end_' = now
  /\ wpc' = "lock"
  /\ UNCHANGED <<rate_limit_, rate_arriving_, rate_arriving_adjusted_,
                 epoch_last_, epoch_current_, duration_slept_,
                 bytes_per_microsecond_, rates_, epoch_write_start_,
                 mutex_throttling_, now, pc, bytes_arriving,
                 sleep_microseconds, loaded, call, returned, written,
                 adjustments, ctl, tally, n_ticks, n_queries>>

\* lines 108-115: lock, then the sample and StoreWritingRate.
W_Store ==
  /\ wpc = "lock"
  /\ Acquire(Writer)
  /\ LET rate == WritingSample(num_bytes_written, epoch_write_start_,
                               epoch_write_end_)
     IN  /\ rates_' = StoreWritingRate(rates_, rate)
         /\ written' = Append(written, rate)
  /\ wpc' = "unlock"
  /\ UNCHANGED <<rate_limit_, rate_arriving_, rate_arriving_adjusted_,
                 epoch_last_, epoch_current_, duration_slept_,
                 bytes_per_microsecond_, epoch_write_start_,
                 epoch_write_end_, now, pc, bytes_arriving,
                 sleep_microseconds, loaded, num_bytes_written, call,
                 returned, adjustments, ctl, tally, n_ticks, n_writes,
                 n_queries>>

\* line 116, and the return.
W_Unlock ==
  /\ wpc = "unlock"
  /\ Release(Writer)
  /\ num_bytes_written' = 0
  /\ wpc' = "idle"
  /\ UNCHANGED <<rate_limit_, rate_arriving_, rate_arriving_adjusted_,
                 epoch_last_, epoch_current_, duration_slept_,
                 bytes_per_microsecond_, rates_, epoch_write_start_,
                 epoch_write_end_, now, pc, bytes_arriving,
                 sleep_microseconds, loaded, call, returned, written,
                 adjustments, ctl, tally, n_ticks, n_writes, n_queries>>

ProducerStep(t, cap) ==
  \/ \E b \in BytesArrivingConc : T_Sample(t, b, cap)
  \/ T_Adjust(t)
  \/ T_Reset(t)
  \/ T_Multiply(t)
  \/ T_BumpLoad(t)
  \/ T_BumpStore(t)
  \/ T_Account(t)
  \/ T_Unlock(t)
  \/ T_Slept(t)
  \/ T_Add(t)

WriterStep ==
  \/ W_Start
  \/ \E n \in BytesWrittenConc : W_Begin(n)
  \/ W_Store
  \/ W_Unlock

NextConc ==
  \/ \E t \in Producers : ProducerStep(t, MaxConcTicks)
  \/ WriterStep
  \/ AdvanceClock(ConcClockStep, MaxNowConc)

\* The threads' interleavings are the subject: one configured ceiling.
InitConc == Init /\ rate_limit_ = 0

SpecConc == InitConc /\ [][NextConc]_vars

NextProducers ==
  \/ \E t \in Producers : ProducerStep(t, MaxProducerTicks)
  \/ AdvanceClock(ConcClockStep, MaxNowProducers)

SpecProducers == InitConc /\ [][NextProducers]_vars

---------------------------------------------------------------------------
(* The controller over any number of epochs.  A step is the controller of  *)
(* one rollover (lines 43-71).  The rates it sees are inputs: the adjusted *)
(* arrival rate is whatever the producers passed and slept in the epoch,   *)
(* the writing rate whatever the writer reported, so every pair can follow *)
(* every coefficient.  bytes_per_microsecond_ is a word of WordBits bits.  *)

\* lines 43-71 with rate_arriving_adjusted_ = a and GetWritingRate() = w
ControllerStep(a, w) ==
  LET product == Multiply(bytes_per_microsecond_, a, w)
  IN  /\ ctl.regime = "overload" => (a > w /\ 2 * a > 3 * w)
      /\ ctl.regime = "underload" => 2 * a < w
      /\ rate_arriving_adjusted_' = a
      /\ \E x \in Converted(product) : bytes_per_microsecond_' = Bump(x)
      /\ ctl' = [before |-> bytes_per_microsecond_, rate_writing |-> w,
                 product |-> product, regime |-> ctl.regime,
                 engaged |-> /\ ctl.regime = "overload"
                             /\ (ctl.engaged \/ product <= BumpThreshold)]
      /\ UNCHANGED <<rate_limit_, rate_arriving_, epoch_last_,
                     epoch_current_, duration_slept_, rates_,
                     epoch_write_start_, epoch_write_end_,
                     mutex_throttling_, now, pc, bytes_arriving,
                     sleep_microseconds, loaded, wpc, num_bytes_written,
                     call, returned, written, adjustments, tally, n_ticks,
                     n_writes, n_queries>>

\* From here on the load stays on one side: every later rollover sees the
\* rates of regime r.
Sustain(r) ==
  /\ ctl.regime = "free"
  /\ ctl' = [ctl EXCEPT !.regime = r]
  /\ UNCHANGED <<rate_limit_, rate_arriving_, rate_arriving_adjusted_,
                 epoch_last_, epoch_current_, duration_slept_,
                 bytes_per_microsecond_, rates_, epoch_write_start_,
                 epoch_write_end_, mutex_throttling_, now, pc,
                 bytes_arriving, sleep_microseconds, loaded, wpc,
                 num_bytes_written, call, returned, written, adjustments,
                 tally, n_ticks, n_writes, n_queries>>

ControllerSteps ==
  \E a \in AdjustedRates, w \in WritingRates : ControllerStep(a, w)

NextController ==
  \/ ControllerSteps
  \/ \E r \in {"overload", "underload"} : Sustain(r)

SpecController == InitConc /\ [][NextController]_vars

\* Producers keep calling Tick in every epoch: rollovers keep coming.
SpecControllerFair == SpecController /\ WF_vars(ControllerSteps)

---------------------------------------------------------------------------
(* Claims                                                                  *)

\* C1: a Tick call sleeps for at most 50,000 microseconds and sleeps at
\* most once, for every byte count and every state a sequence of calls
\* reaches, whether or not the call performed a rollover.
C1_TickSleepBounded ==
  call.op = "Tick" => call.slept <= 50000 /\ call.sleeps <= 1

\* A Tick whose quotient bytes / coefficient exceeded the cap slept the cap.
C1_Witness ==
  /\ call.op = "Tick"
  /\ call.arg \div bytes_per_microsecond_ > 50000
  /\ call.slept = 50000
  /\ call.sleeps = 1

\* C2: with calls run one at a time the coefficient is at least 1 after
\* every completed call, starting from 5.
C2_CoefficientAtLeastOne == bytes_per_microsecond_ >= 1

\* Three rollovers have adjusted the coefficient and the last one, whose
\* product was 3, was bumped to 4.
C2_Witness ==
  /\ call.op = "Tick" /\ call.rolled
  /\ Cardinality(DOMAIN adjustments) >= 3
  /\ bytes_per_microsecond_ = 4

\* C3: with producers running Tick concurrently the coefficient is at least
\* 1 in every reachable state, the states between a multiplication and its
\* bump included.
C3_CoefficientPositiveConcurrent == bytes_per_microsecond_ > 0

\* C4: for each value of the sampled epoch the rollover branch, and with it
\* the adjustment of the coefficient, is entered once, also with several
\* producers in Tick around the rollover.
C4_OneAdjustmentPerEpoch ==
  \A e \in DOMAIN adjustments : adjustments[e] <= 1

\* C5: every write of rate_arriving, rate_arriving_adjusted, duration_slept,
\* epoch_last, the coefficient and the history is made by a thread holding
\* the mutex: a step that changes one of them is taken with the mutex held
\* (the steps that lock and then write leave it held).
C5_WritesUnderMutex ==
  [][<<rate_arriving_, rate_arriving_adjusted_, duration_slept_,
       epoch_last_, bytes_per_microsecond_, rates_>>'
       # <<rate_arriving_, rate_arriving_adjusted_, duration_slept_,
           epoch_last_, bytes_per_microsecond_, rates_>>
     => mutex_throttling_' # NoThread]_vars

\* C6: GetWritingRate returns a strictly positive value on every call.
C6_WritingRatePositive == returned # Unset => returned > 0

\* C7: with a nonzero ceiling GetWritingRate never returns more than the
\* ceiling, with an empty history as with stored samples.
C7_WritingRateWithinCeiling ==
  (returned # Unset /\ rate_limit_ > 0) => returned <= rate_limit_

\* The sum of a sequence, front to back.
RECURSIVE Total(_)
Total(s) == IF s = <<>> THEN 0 ELSE Head(s) + Total(Tail(s))

\* C8: GetWritingRate returns 1,048,576 for an empty history; otherwise the
\* mean of the stored samples (their sum divided, as integers, by their
\* number), or the ceiling when the ceiling is nonzero and below that mean.
\* Ten samples of 2,000,000 with ceiling 0 give 2,000,000.
C8_WritingRateValue ==
  returned # Unset =>
    /\ rates_ = <<>> => returned = 1048576
    /\ rates_ # <<>> =>
         LET mean == Total(rates_) \div Len(rates_)
         IN  returned = IF rate_limit_ # 0 /\ rate_limit_ < mean
                          THEN rate_limit_
                          ELSE mean
    /\ (rate_limit_ = 0 /\ rates_ = [i \in 1..10 |-> 2000000])
         => returned = 2000000

\* GetWritingRate has returned 2,000,000 for ten samples of 2,000,000.
C8_Witness ==
  /\ returned = 2000000
  /\ rate_limit_ = 0
  /\ rates_ = [i \in 1..10 |-> 2000000]

\* C9: after n WriteEnd calls the history holds the samples of the last
\* min(n, 10) calls, in call order; its length never exceeds 10.
C9_HistoryIsLastTen ==
  LET n == Len(written)
  IN  /\ n = n_writes
      /\ Len(rates_) <= 10
      /\ rates_ = SubSeq(written, IF n > 10 THEN n - 9 ELSE 1, n)

\* The 11th WriteEnd has evicted the sample of the 1st call, which differed
\* from the sample of the 2nd, now the oldest.
C9_Witness ==
  /\ n_writes = 11
  /\ written[1] # written[2]
  /\ Len(rates_) = 10
  /\ rates_[1] = written[2]
  /\ rates_[10] = written[11]

\* C10 as stated: Tick(0) never changes the coefficient, never sleeps, and
\* changes epoch_last, rate_arriving, duration_slept and
\* rate_arriving_adjusted only when the sampled epoch differs from
\* epoch_last.
C10_TickZeroKeepsCoefficient ==
  [][Tick(0) =>
       /\ bytes_per_microsecond_' = bytes_per_microsecond_
       /\ call'.slept = 0
       /\ EpochOf(now) = epoch_last_ =>
            UNCHANGED <<epoch_last_, rate_arriving_, duration_slept_,
                        rate_arriving_adjusted_>>]_vars

\* C10 as amended: Tick(0) never sleeps; it changes the coefficient and the
\* epoch bookkeeping only when the sampled epoch differs from epoch_last.
C10_TickZeroAmended ==
  [][Tick(0) =>
       /\ call'.slept = 0 /\ call'.sleeps = 0
       /\ EpochOf(now) = epoch_last_ =>
            UNCHANGED <<bytes_per_microsecond_, epoch_last_, rate_arriving_,
                        duration_slept_, rate_arriving_adjusted_>>]_vars

\* Tick(0) has run twice: with a rollover that changed the coefficient, and
\* then in the same epoch, leaving bytes accounted before it in place.
C10_Witness ==
  /\ call.op = "Tick" /\ call.arg = 0 /\ ~call.rolled
  /\ n_ticks >= 2
  /\ rate_arriving_ > 0
  /\ bytes_per_microsecond_ # InitialCoefficient

\* The multiplier the controller is to pick for the rates a and w > 0, as
\* <<num, den>>, by the band of a / w.
BandMultiplier(a, w) ==
  IF a > w
    THEN IF 100 * a > 150 * w THEN <<75, 100>>
         ELSE IF 100 * a > 110 * w THEN <<95, 100>>
         ELSE IF 100 * a > 105 * w THEN <<99, 100>>
         ELSE <<995, 1000>>
    ELSE IF 100 * a < 50 * w THEN <<125, 100>>
         ELSE IF 100 * a < 90 * w THEN <<105, 100>>
         ELSE IF 100 * a < 95 * w THEN <<101, 100>>
         ELSE <<1005, 1000>>

\* floor(c * m), plus one when that is 5 or less
BandCoefficient(c, a, w) ==
  LET m == BandMultiplier(a, w)
      floor == (c * m[1]) \div m[2]
  IN  IF floor <= 5 THEN floor + 1 ELSE floor

\* C11: a rollover that sees the writing rate w and the adjusted arrival
\* rate a leaves the coefficient at floor(c * m), plus 1 when that is 5 or
\* less, with m picked by the band of a / w (0.75, 0.95, 0.99, 0.995 above
\* the writing rate; 1.25, 1.05, 1.01, 1.005 at or below it).  Stated for
\* w > 0 and for products that fit the word.
C11_ControllerValue ==
  [][\A a \in AdjustedRates, w \in WritingRates :
       (/\ ControllerStep(a, w)
        /\ w > 0
        /\ BandCoefficient(bytes_per_microsecond_, a, w) < Modulus)
       => bytes_per_microsecond_' =
            BandCoefficient(bytes_per_microsecond_, a, w)]_vars

\* C12, as claimed: in a run where every rollover sees the adjusted arrival
\* rate above 1.5 times the writing rate, once a rollover's product is 5 or
\* less (the bump applies) the coefficient never exceeds 5.
C12_OverloadSettlesAtFive ==
  (ctl.regime = "overload" /\ ctl.engaged) => bytes_per_microsecond_ <= 5

\* C12, amended: in such a run a rollover whose product stays above 5 leaves
\* the coefficient strictly smaller; a rollover's product eventually is 5 or
\* less; from then on the coefficient never exceeds 6, and it never exceeds
\* 5 again once it is 5 or less.
C12_OverloadDescends ==
  /\ [][(ctl.regime = "overload" /\ ControllerSteps)
          => /\ ctl'.product > 5
                  => bytes_per_microsecond_' < bytes_per_microsecond_
             /\ bytes_per_microsecond_ <= 5
                  => bytes_per_microsecond_' <= 5]_vars
  /\ []((ctl.regime = "overload" /\ ctl.engaged)
          => bytes_per_microsecond_ <= 6)
  /\ (ctl.regime = "overload" ~> ctl.engaged)

\* A sustained overload found the coefficient at 7: the product is 5, the
\* bump makes it 6.
C12_Witness ==
  /\ ctl.regime = "overload"
  /\ ctl.engaged
  /\ ctl.before = 7
  /\ bytes_per_microsecond_ = 6

\* C13: in a run where every rollover sees the adjusted arrival rate below
\* half of the writing rate, every rollover leaves the coefficient strictly
\* greater than it found it, whatever the coefficient was.
C13_UnderloadAscends ==
  [][(ctl.regime = "underload" /\ ControllerSteps)
       => bytes_per_microsecond_' > bytes_per_microsecond_]_vars

\* C14: WriteEnd(n) appends exactly one sample to the history: n when the
\* timestamps of WriteStart and WriteEnd are the same millisecond, and
\* floor(n * 1000 / (end - start)) otherwise, start being the timestamp of
\* the WriteStart before it.
C14_SampleValue ==
  [][\A n \in BytesWrittenSample :
       WriteEnd(n, MaxSampleWrites)
         => /\ Len(written') = Len(written) + 1
            /\ rates_'[Len(rates_')] =
                 IF epoch_write_start_ = now
                   THEN n
                   ELSE (n * 1000) \div (now - epoch_write_start_)]_vars

\* C15: no thread sleeps in Tick with the mutex held: a sleeping producer
\* does not hold it, whoever holds it is between its lock and its unlock,
\* and the writer is never asleep in WriteStart or WriteEnd.  So a thread
\* waiting for the lock never waits for a sleep to end.
C15_NoSleepUnderMutex ==
  /\ \A t \in Producers : pc[t] = "sleep" => mutex_throttling_ # t
  /\ \A t \in Producers : mutex_throttling_ = t => pc[t] = "unlock"
  /\ mutex_throttling_ = Writer => wpc = "unlock"
  /\ wpc # "sleep"

\* A producer is asleep and the writer, in WriteEnd, holds the mutex.
C15_Witness ==
  /\ \E t \in Producers : pc[t] = "sleep" /\ sleep_microseconds[t] > 0
  /\ mutex_throttling_ = Writer

\* C16: with calls one at a time, a Tick(b) whose sampled epoch differs from
\* epoch_last_ sets rate_arriving_adjusted_ to rate_arriving_ +
\* coefficient * duration_slept_, all three as they were before the call;
\* runs the controller with that value and the writing rate; and returns
\* with epoch_last_ the sampled epoch, rate_arriving_ = b and
\* duration_slept_ the time this call slept.
C16_RolloverBookkeeping ==
  [][\A b \in BytesArrivingSet :
       (Tick(b) /\ now \div 1000 # epoch_last_)
         => /\ rate_arriving_adjusted_' =
                 rate_arriving_ + bytes_per_microsecond_ * duration_slept_
            /\ bytes_per_microsecond_' =
                 Bump(Multiply(bytes_per_microsecond_,
                               rate_arriving_adjusted_',
                               GetWritingRate(rates_, rate_limit_)))
            /\ epoch_last_' = now \div 1000
            /\ rate_arriving_' = b
            /\ duration_slept_' = call'.slept]_vars

\* A rollover that found bytes and sleep time from the epoch before it.
C16_Witness ==
  /\ call.op = "Tick"
  /\ call.rolled
  /\ n_ticks >= 2
  /\ rate_arriving_adjusted_ > 300000
  /\ rate_arriving_adjusted_ < InitialRateArriving
  /\ duration_slept_ = call.slept
  /\ call.slept > 0

\* C17: duration_slept_ changes in two ways only, also with several
\* producers: a Tick that has slept adds exactly its sleep time, and a
\* rollover resets it to 0.  No other step changes it, so between two
\* rollovers it never decreases.
C17_DurationSleptSteps ==
  [][/\ \A t \in Producers :
          T_Add(t) => duration_slept_' =
                        duration_slept_ + sleep_microseconds[t]
     /\ (\A t \in Producers : ~T_Add(t))
          => \/ duration_slept_' = duration_slept_
             \/ duration_slept_' = 0 /\ \E t \in Producers : T_Reset(t)]_vars

\* C18: with concurrent producers no arriving byte is lost: every byte
\* added to rate_arriving_ (the constructor's first value included) went
\* into the rate_arriving_adjusted_ of a rollover or is still in
\* rate_arriving_, whenever no rollover is between lines 35 and 40.
C18_NoByteLost ==
  (\A t \in Producers : pc[t] # "reset")
    => InitialRateArriving + tally.added <= tally.adjusted + rate_arriving_

\* C19: the first Tick on a fresh limiter, at a clock whose second is not
\* 0 and with no WriteEnd before it, is a rollover: it sees the adjusted
\* arrival rate 262,144,000 (250 MiB) against the default writing rate
\* 1,048,576, leaves the coefficient at 4 whatever its byte count, and
\* computes its own sleep time from 4.
C19_FirstTick ==
  (n_ticks = 1 /\ n_writes = 0)
    => /\ call.rolled
       /\ rate_arriving_adjusted_ = 262144000
       /\ call.rate_writing = 1048576
       /\ bytes_per_microsecond_ = 4
       /\ call.slept = IF call.arg \div 4 > 50000
                         THEN 50000
                         ELSE call.arg \div 4

\* The first Tick, at a later second, passed 9 bytes and slept 9 div 4 = 2
\* microseconds (9 div 5 is 1).
C19_Witness ==
  /\ n_ticks = 1
  /\ n_writes = 0
  /\ call.arg = 9
  /\ call.slept = 2
  /\ epoch_last_ > 1

\* C20: the rollover arithmetic never leaves the word: for every sequence
\* of rollovers, a long run of underload among them, the multiplied
\* coefficient is below 2^WordBits (2^64 in the code), so the coefficient
\* never drops because of an overflow.
C20_ProductFitsWord ==
  ctl.product # Unset
    => /\ ctl.product < Modulus
       /\ ctl.product >= ctl.before => bytes_per_microsecond_ >= ctl.before

====
